---- MODULE Spec2Model ----
(***************************************************************************)
(* Script execution subsystem of script-launcher (src/src/main/main.ts):   *)
(* the execute-script / run-command IPC handlers and the three executors   *)
(* executeJavaScript, executePython and executeShell.                      *)
(*                                                                         *)
(* Text is modelled as a sequence of one-character strings, so that        *)
(* split("\n"), replace(/"/g, ...) and string concatenation are computed   *)
(* as the code computes them.  Fixed message texts are single tokens.      *)
(* Time is in milliseconds.  The host (Electron main) process has one      *)
(* thread: every handler, event callback and timer callback runs only when *)
(* that thread is idle.                                                    *)
(***************************************************************************)
EXTENDS Integers, Sequences, FiniteSets, TLC

VARIABLES
  now,         \* wall clock, ms
  host,        \* who occupies the host thread: "idle" | "script" | "other"
  lang,        \* executor serving the run: "none" | "javascript" | "python" | "shell" | "command"
  phase,       \* JavaScript evaluation: "none" | "sync" | "suspended" | "ended"
  child,       \* subprocess: "none" | "running" | "failed" (not started) | "closed"
  errorSeen,   \* the child's 'error' event was emitted
  stdout,      \* let stdout = ""  (accumulated by the data handler)
  stderr,      \* let stderr = ""
  logs,        \* const logs: string[]  (the array the handlers push to)
  timer,       \* the executor's setTimeout: "none" | "armed" | "fired"
  deadline,    \* instant at which the timer becomes due
  kills,       \* number of child.kill() calls
  promise,     \* promise returned by the handler: "pending" | "resolved" | "rejected"
  delivered,   \* value the promise settled with (what the caller receives)
  settledBy,   \* completion source that settled it
  resolvedAt,  \* instant at which it settled
  exitSeen,    \* exit code passed to the close handler
  produced,    \* lines pushed by the script's bindings, in order: <<binding, line>>
  thrown,      \* value the script threw (or the timeout Error), when it did
  lineStarts,  \* stream ("out" | "err") of each output line the child began, in order
  request,     \* language argument of the execute-script call ("none": no such call)
  value,       \* executePython: one string | number parameter value
  assignment,  \* executePython: text of the assignment line built for it
  injectPc,    \* executePython injection: "input" | "built" | "parsed"
  parsed,      \* what the Python interpreter makes of the assignment line
  calls,       \* customConsole: the calls a script made, in order: <<channel, args>>
  entries,     \* customConsole: the logs array those calls pushed to
  run,         \* two runs side by side: each one's language, locals and result
  stringify,   \* JSON.stringify of the host's JSON object: 0 (native) or the
               \* run whose script assigned it
  inputs,      \* executeShell: the parameter map (name -> string | number value)
  hostEnv,     \* executeShell: process.env of the host
  env,         \* executeShell: the env object handed to spawn
  envPc,       \* executeShell: "input" | "spawned" | "closed"
  shellLogs,   \* executeShell: logs of the run of `echo $name`
  shellPlatform, \* executeShell: process.platform
  helper,      \* the sandbox helper called: sleep, setTimeout or setInterval
  requested,   \* the delay the script passed
  registered,  \* the delay the helper passed to the host's timer
  wait,        \* the delay the host's timer runs with, in ms
  clampPc,     \* "idle" | "called" | "registered" | "fired"
  viewMode,    \* App: "list" | "input" | "result" | "settings"
  result,      \* App: the result state, NullResult or what a run returned
  runs,        \* App: per run "none" | "pending" | "done"
  latest,      \* App: the run started last (0: none yet)
  hideTimers,  \* App: runs whose 500 ms hide timer is pending
  isVisible,   \* main process: the window is shown
  outcome,     \* App: per run what executeScript's await produced
  scheduledHide, \* App: runs whose completion scheduled the hide timer
  registeredKeys, \* globalShortcut: accelerators this app has registered
  currentShortcut, \* main process: let currentShortcut
  savedShortcut, \* settings file: the shortcut saved last
  savedBefore, \* settings file: the shortcut saved when the last call began
  takenKeys,   \* accelerators held by other applications
  lastReturn,  \* what the last registerGlobalShortcut returned: "none"
               \* before the first call, "true" or "false"
  scripts,     \* store: state.scripts, as the list of script ids
  folders,     \* store: state.folders
  scriptFolderMap, \* store: state.scriptFolderMap
  usedIds,     \* store: the ids minted so far (ids are never minted twice)
  lastOp       \* store: the reordering operation applied last, or "other"

execVars == <<now, host, lang, phase, child, errorSeen, stdout, stderr, logs,
              timer, deadline, kills, promise, delivered, settledBy,
              resolvedAt, exitSeen, produced, thrown, lineStarts, request>>
injectVars == <<value, assignment, injectPc, parsed>>
consoleVars == <<calls, entries>>
pairVars == <<run, stringify>>
envVars == <<inputs, hostEnv, env, envPc, shellLogs, shellPlatform>>
clampVars == <<helper, requested, registered, wait, clampPc>>
appVars ==
  <<viewMode, result, runs, latest, hideTimers, isVisible, outcome, scheduledHide>>
shortcutVars ==
  <<registeredKeys, currentShortcut, savedShortcut, savedBefore, takenKeys, lastReturn>>
storeVars == <<scripts, folders, scriptFolderMap, usedIds, lastOp>>
\* every variable group other than the executors'
others == <<injectVars, consoleVars, pairVars, envVars, clampVars, appVars, shortcutVars, storeVars>>
\* every variable group other than the named one
exceptInject ==
  <<execVars, consoleVars, pairVars, envVars, clampVars, appVars, shortcutVars, storeVars>>
exceptConsole ==
  <<execVars, injectVars, pairVars, envVars, clampVars, appVars, shortcutVars, storeVars>>
exceptPair ==
  <<execVars, injectVars, consoleVars, envVars, clampVars, appVars, shortcutVars, storeVars>>
exceptEnv ==
  <<execVars, injectVars, consoleVars, pairVars, clampVars, appVars, shortcutVars, storeVars>>
exceptClamp ==
  <<execVars, injectVars, consoleVars, pairVars, envVars, appVars, shortcutVars, storeVars>>
exceptApp ==
  <<execVars, injectVars, consoleVars, pairVars, envVars, clampVars, shortcutVars, storeVars>>
exceptShortcut ==
  <<execVars, injectVars, consoleVars, pairVars, envVars, clampVars, appVars, storeVars>>
exceptStore ==
  <<execVars, injectVars, consoleVars, pairVars, envVars, clampVars, appVars, shortcutVars>>
vars == <<execVars, others>>

----------------------------------------------------------------------------
(* Bounds of the model *)

MaxOut == 2
MaxErrOut == 3
MaxLogs == 2
TickMs == 5000
MaxTimeMs == 40000

(* Program constants *)

JsTimeoutMs == 10000
PythonTimeoutMs == 10000
ShellTimeoutMs == 30000
CommandTimeoutMs == 30000

NL == "\n"
OutChars == {"a", NL}
ErrChars == {"e", NL}
ExitCodes == {"0", "1", "null"}
SystemErrors == {"spawn ENOENT", "spawn EACCES"}
\* exit code passed to the close handler of a child that was not started
\* (the negated errno)
SpawnFailureCode == "-2"
LanguageTags == {"javascript", "python", "shell", "ruby", "missing"}

Undefined == <<"undefined">>

Min(S) == CHOOSE x \in S : \A y \in S : x <= y

----------------------------------------------------------------------------
(* Pure helpers *)

HasNewline(s) == \E i \in 1..Len(s) : s[i] = NL

FirstNewline(s) == Min({i \in 1..Len(s) : s[i] = NL})

RECURSIVE Split(_)
\* String.prototype.split("\n"): the segments between newlines, empty ones kept
Split(s) ==
  IF ~HasNewline(s) THEN <<s>>
  ELSE <<SubSeq(s, 1, FirstNewline(s) - 1)>>
       \o Split(SubSeq(s, FirstNewline(s) + 1, Len(s)))

\* the split without the filter
AllLines(s) == Split(s)

\* .filter((line) => line): drop the empty segments
NonEmptyLines(s) == SelectSeq(Split(s), LAMBDA l : l # <<>>)

RECURSIVE PrefixEach(_, _)
PrefixEach(p, ls) ==
  IF ls = <<>> THEN <<>> ELSE <<(<<p>> \o Head(ls))>> \o PrefixEach(p, Tail(ls))

\* if (stdout) { stdout.split("\n").filter(..).forEach((line) => logs.push(line)) }
PushStdout(lg, out) == IF out # <<>> THEN lg \o NonEmptyLines(out) ELSE lg

\* the stderr lines pushed as they are, without the prefix
PushStderrUnprefixed(lg, err) ==
  IF err # <<>> THEN lg \o NonEmptyLines(err) ELSE lg

\* if (stderr) { ... logs.push(`[ERROR] ${line}`) }
PushStderr(lg, err) ==
  IF err # <<>> THEN lg \o PrefixEach("[ERROR] ", NonEmptyLines(err)) ELSE lg

ScriptResult(lg, res, err) == [logs |-> lg, result |-> res, error |-> err]

NoResult == ScriptResult(<<>>, "none", Undefined)

IsSubprocess(l) == l \in {"python", "shell", "command"}

\* a routing that sends only the tag "javascript" to the in-process executor
DispatchKnownOnly(tag) ==
  IF tag = "python" THEN "python"
  ELSE IF tag = "javascript" THEN "javascript"
  ELSE "shell"

\* execute-script routes by the language tag
Dispatch(tag) ==
  IF tag = "python" THEN "python"
  ELSE IF tag = "shell" THEN "shell"
  ELSE "javascript"

TimeoutOf(l) ==
  CASE l = "python" -> PythonTimeoutMs
    [] l = "shell" -> ShellTimeoutMs
    [] l = "command" -> CommandTimeoutMs
    [] OTHER -> JsTimeoutMs

TimeoutMessage(l) ==
  CASE l = "python" -> <<"Script execution timed out (10s)">>
    [] l = "shell" -> <<"Script execution timed out (30s)">>
    [] l = "command" -> <<"Command execution timed out (30s)">>
    [] OTHER -> <<"Script execution timed out (10s)">>

LaunchFailure(l, msg) ==
  CASE l = "python" -> <<"Failed to execute Python: ", msg>>
    [] l = "shell" -> <<"Failed to execute shell: ", msg>>
    [] OTHER -> <<"Failed to execute command: ", msg>>

ExitDescription(l, code) ==
  IF l = "python" THEN <<"Process exited with code ", code>>
  ELSE <<"Exit code: ", code>>


----------------------------------------------------------------------------
(* Values a JavaScript evaluation can throw.  The script runs in its own   *)
(* vm context: an Error it constructs, or one the engine raises while it   *)
(* runs, belongs to the context's realm; the SyntaxError of new vm.Script, *)
(* the Error thrown by the exec helper and the timeout Error are created   *)
(* by host code and belong to the host realm.                              *)

ErrorValue(rlm, nm, msg) ==
  [isError |-> TRUE, realm |-> rlm, name |-> nm, message |-> msg, printable |-> TRUE]

Primitive(txt) ==
  [isError |-> FALSE, realm |-> "none", name |-> "", message |-> txt, printable |-> TRUE]

\* an object without a usable toString, e.g. Object.create(null): String(v)
\* throws a TypeError
Unprintable ==
  [isError |-> FALSE, realm |-> "context", name |-> "", message |-> "", printable |-> FALSE]

NothingThrown == Primitive("")

CompileError == ErrorValue("host", "SyntaxError", "Unexpected token")

TimeoutError == ErrorValue("host", "Error", "Script execution timed out (10s)")

ScriptThrows ==
  { ErrorValue("context", "Error", "boom"),     \* throw new Error("boom")
    ErrorValue("host", "Error", "cmd failed"),  \* thrown by the exec helper
    Primitive("oops"),                          \* throw "oops"
    Unprintable }                               \* throw Object.create(null)

ReturnValues == {"undefined", "v"}

\* execSync(command): trimmed output of the command ("" when it printed nothing)
ExecOutputs == {<<>>, <<"o">>}

ConsoleChannels == {"log", "error"}
ConsoleArgs == {"x"}

\* customConsole: the prefix of each channel
ChannelPrefix(ch) ==
  CASE ch = "log" -> <<>>
    [] ch = "error" -> <<"[ERROR] ">>
    [] ch = "warn" -> <<"[WARN] ">>
    [] ch = "info" -> <<"[INFO] ">>

ConsoleLine(ch, a) == ChannelPrefix(ch) \o <<a>>

\* error instanceof Error, evaluated by host code
InstanceOfHostError(e) == e.isError /\ e.realm = "host"

\* String(error) throws instead of returning a text
StringThrows(e) == ~e.printable

\* String(error)
StringOf(e) ==
  IF e.isError
  THEN (IF e.message = "" THEN <<e.name>> ELSE <<e.name, ": ", e.message>>)
  ELSE <<e.message>>

\* error instanceof Error ? error.message : String(error)
ErrorText(e) == IF InstanceOfHostError(e) THEN <<e.message>> ELSE StringOf(e)

Outcome(st, v) == [state |-> st, value |-> v]

\* return { logs, result }
JsReturn(lg, v) == Outcome("resolved", ScriptResult(lg, v, Undefined))

\* the catch block answering with a fresh log list
JsCatchDropsLogs(lg, e) ==
  IF ~InstanceOfHostError(e) /\ StringThrows(e)
  THEN Outcome("rejected", NoResult)
  ELSE Outcome("resolved", ScriptResult(<<>>, "undefined", ErrorText(e)))

\* catch (error) { return { logs, result: undefined, error: ... } }
\* An exception raised by String(error) inside the catch block leaves the
\* async function: its promise is rejected.
JsCatch(lg, e) ==
  IF ~InstanceOfHostError(e) /\ StringThrows(e)
  THEN Outcome("rejected", NoResult)
  ELSE Outcome("resolved", ScriptResult(lg, "undefined", ErrorText(e)))

----------------------------------------------------------------------------
(* Results built by the subprocess executors' callbacks *)

\* the Python close handler deciding failure by the exit code alone
PythonOnCloseExitOnly(lg, out, err, code) ==
  LET lg2 == PushStdout(lg, out)
  IN IF code # "0"
     THEN ScriptResult(lg2, "undefined",
                       IF err # <<>> THEN err ELSE ExitDescription("python", code))
     ELSE ScriptResult(lg2, "undefined", Undefined)

\* the Python close handler also pushing the stderr lines to logs
PythonOnCloseLogsStderr(lg, out, err, code) ==
  LET lg2 == PushStdout(lg, out)
  IN IF code # "0" \/ err # <<>>
     THEN ScriptResult(PushStderr(lg2, err), "undefined",
                       IF err # <<>> THEN err ELSE ExitDescription("python", code))
     ELSE ScriptResult(lg2, "undefined", Undefined)

PythonOnClose(lg, out, err, code) ==
  LET lg2 == PushStdout(lg, out)
  IN IF code # "0" \/ err # <<>>
     THEN ScriptResult(lg2, "undefined",
                       IF err # <<>> THEN err ELSE ExitDescription("python", code))
     ELSE ScriptResult(lg2, "undefined", Undefined)

\* the shell close handler leaving error unset whenever stderr had content
ShellOnCloseStderrUnset(lg, out, err, code) ==
  LET lg2 == PushStdout(lg, out)
  IN IF code # "0" \/ err # <<>>
     THEN ScriptResult(PushStderr(lg2, err), "undefined",
                       IF err = <<>> THEN ExitDescription("shell", code) ELSE Undefined)
     ELSE ScriptResult(lg2, "undefined", Undefined)

ShellOnClose(lg, out, err, code) ==
  LET lg2 == PushStdout(lg, out)
  IN IF code # "0" \/ err # <<>>
     THEN ScriptResult(PushStderr(lg2, err), "undefined",
                       IF code # "0" THEN ExitDescription("shell", code) ELSE Undefined)
     ELSE ScriptResult(lg2, "undefined", Undefined)

\* the run-command close handler leaving the stderr lines out of logs
CommandOnCloseDropsStderr(lg, out, err, code) ==
  LET lg2 == PushStdout(lg, out)
  IN IF code # "0" \/ err # <<>>
     THEN ScriptResult(lg2, "undefined",
                       IF code # "0" THEN ExitDescription("command", code) ELSE Undefined)
     ELSE ScriptResult(lg2, "undefined", Undefined)

CommandOnClose(lg, out, err, code) ==
  LET lg2 == PushStdout(lg, out)
  IN IF code # "0" \/ err # <<>>
     THEN ScriptResult(PushStderr(lg2, err), "undefined",
                       IF code # "0" THEN ExitDescription("command", code) ELSE Undefined)
     ELSE ScriptResult(lg2, "undefined", Undefined)

OnClose(l, lg, out, err, code) ==
  CASE l = "python" -> PythonOnClose(lg, out, err, code)
    [] l = "shell" -> ShellOnClose(lg, out, err, code)
    [] OTHER -> CommandOnClose(lg, out, err, code)

\* the error handler reporting a timeout
OnErrorAsTimeout(l, lg, msg) == ScriptResult(lg, "undefined", TimeoutMessage(l))

OnError(l, lg, msg) == ScriptResult(lg, "undefined", LaunchFailure(l, msg))

OnTimeout(l, lg) == ScriptResult(lg, "undefined", TimeoutMessage(l))

\* a promise whose every resolve() call replaces the value
ResolveLast(st, cur, v) == v

\* A promise settles once: the first resolve() decides, later calls do nothing
ResolveOnce(st, cur, v) == IF st = "pending" THEN v ELSE cur

\* resolve(v) / the async function returning or throwing
Settle(o, src) ==
  /\ promise' = IF promise = "pending" THEN o.state ELSE promise
  /\ delivered' = ResolveOnce(promise, delivered, o.value)
  /\ settledBy' = IF promise = "pending" THEN src ELSE settledBy
  /\ resolvedAt' = IF promise = "pending" THEN now ELSE resolvedAt

NotSettled == UNCHANGED <<promise, delivered, settledBy, resolvedAt>>

----------------------------------------------------------------------------
(* executePython: the assignment line prepended for one parameter, and the *)
(* Python interpreter's reading of it.                                     *)

MaxValueLen == 3

QUOTE == "\""
BACKSLASH == "\\"
ValueChars == {QUOTE, BACKSLASH, NL, "n", "z"}
NumberValues == {0, 7, -3}

RECURSIVE StringsUpTo(_)
StringsUpTo(n) ==
  IF n = 0 THEN {<<>>}
  ELSE LET shorter == StringsUpTo(n - 1)
       IN shorter \cup {Append(t, c) : t \in shorter, c \in ValueChars}

StringValue(t) == [type |-> "string", text |-> t, num |-> 0]
NumberValue(n) == [type |-> "number", text |-> <<>>, num |-> n]

ParameterValues ==
  {StringValue(t) : t \in StringsUpTo(MaxValueLen)} \cup {NumberValue(n) : n \in NumberValues}

RECURSIVE EscapeQuotes(_)
\* value.replace(/"/g, '\\"'): a backslash before every double quote
EscapeQuotes(t) ==
  IF t = <<>> THEN <<>>
  ELSE (IF Head(t) = QUOTE THEN <<BACKSLASH, QUOTE>> ELSE <<Head(t)>>)
       \o EscapeQuotes(Tail(t))

DigitChar(d) == <<"0", "1", "2", "3", "4", "5", "6", "7", "8", "9">>[d + 1]

\* `${value}` for a one-digit integer
NumberToString(n) == IF n < 0 THEN <<"-", DigitChar(-n)>> ELSE <<DigitChar(n)>>

\* the text after `${key} = `, up to and including the line's "\n"
InjectedLiteral(v) ==
  IF v.type = "string"
  THEN <<QUOTE>> \o EscapeQuotes(v.text) \o <<QUOTE, NL>>
  ELSE NumberToString(v.num) \o <<NL>>

SyntaxError == [ok |-> FALSE, type |-> "error", text |-> <<>>, num |-> 0]
PyString(t) == [ok |-> TRUE, type |-> "string", text |-> t, num |-> 0]
PyNumber(n) == [ok |-> TRUE, type |-> "number", text |-> <<>>, num |-> n]

DigitValue(c) == CHOOSE d \in 0..9 : DigitChar(d) = <<c>>[1]
IsDigit(c) == \E d \in 0..9 : DigitChar(d) = c

RECURSIVE PyStringBody(_, _)
(* Python's reading of a "..." literal from inside its opening quote: acc  *)
(* is the value decoded so far.  \" \\ \n are escapes, a backslash before  *)
(* a line end continues the line, an unknown escape keeps its backslash, a *)
(* raw line end inside the literal is a syntax error.  After the closing   *)
(* quote the statement must end with the line: an adjacent quote opens a   *)
(* literal that is concatenated, anything else is a syntax error.  Text    *)
(* left after the statement's line end would be further statements ending  *)
(* in the template's closing quote, which cannot be well formed because    *)
(* every quote of the value is preceded by a backslash outside any string. *)
PyStringBody(t, acc) ==
  IF t = <<>> THEN SyntaxError
  ELSE IF Head(t) = NL THEN SyntaxError
  ELSE IF Head(t) = BACKSLASH
  THEN (IF Len(t) < 2 THEN SyntaxError
        ELSE LET d == t[2]
                 rest == SubSeq(t, 3, Len(t))
             IN CASE d = QUOTE -> PyStringBody(rest, Append(acc, QUOTE))
                  [] d = BACKSLASH -> PyStringBody(rest, Append(acc, BACKSLASH))
                  [] d = "n" -> PyStringBody(rest, Append(acc, NL))
                  [] d = NL -> PyStringBody(rest, acc)
                  [] OTHER -> PyStringBody(rest, acc \o <<BACKSLASH, d>>))
  ELSE IF Head(t) = QUOTE
  THEN (LET after == Tail(t)
        IN IF after = <<NL>> THEN PyString(acc)
           ELSE IF after # <<>> /\ Head(after) = QUOTE
           THEN PyStringBody(Tail(after), acc)
           ELSE SyntaxError)
  ELSE PyStringBody(Tail(t), Append(acc, Head(t)))

\* the interpreter's value for the right-hand side of the assignment line
PyLiteral(t) ==
  IF t # <<>> /\ Head(t) = QUOTE THEN PyStringBody(Tail(t), <<>>)
  ELSE IF Len(t) = 2 /\ IsDigit(t[1]) /\ t[2] = NL THEN PyNumber(DigitValue(t[1]))
  ELSE IF Len(t) = 3 /\ t[1] = "-" /\ IsDigit(t[2]) /\ t[3] = NL
  THEN PyNumber(0 - DigitValue(t[2]))
  ELSE SyntaxError

InitInjectIdle ==
  /\ value = StringValue(<<>>)
  /\ assignment = <<>>
  /\ injectPc = "input"
  /\ parsed = SyntaxError

InitInject ==
  /\ value \in ParameterValues
  /\ assignment = <<>>
  /\ injectPc = "input"
  /\ parsed = SyntaxError

\* for (const [key, value] of Object.entries(inputs)) { inputCode += ... }
BuildAssignment ==
  /\ injectPc = "input"
  /\ assignment' = InjectedLiteral(value)
  /\ injectPc' = "built"
  /\ UNCHANGED <<exceptInject, value, parsed>>

\* python3 -c fullCode reads the line
InterpretAssignment ==
  /\ injectPc = "built"
  /\ parsed' = PyLiteral(assignment)
  /\ injectPc' = "parsed"
  /\ UNCHANGED <<exceptInject, value, assignment>>

NextInject ==
  \/ BuildAssignment
  \/ InterpretAssignment

----------------------------------------------------------------------------
(* customConsole: the text one call pushes to logs.  A value is a string   *)
(* (typeof "string"), an object whose JSON text is known, or an object     *)
(* that refers to itself, for which the native JSON.stringify throws a     *)
(* TypeError.  The sandbox hands the host's own JSON object to the script, *)
(* so a script can assign JSON.stringify; impl names the function then in  *)
(* effect: 0 for the native one, r for the one run r assigned, which       *)
(* answers with that run's text.                                           *)

MaxCalls == 2
MaxArgs == 2

Runs == {1, 2}

\* the text only run r writes
OwnText(r) == IF r = 1 THEN "p" ELSE "q"

JsString(t) == [kind |-> "string", text |-> t]
JsObject == [kind |-> "object", text |-> "{}"]
JsCircular == [kind |-> "circular", text |-> ""]

ConsoleValues == {JsString("x"), JsObject, JsCircular}
AllChannels == {"log", "error", "warn", "info"}

RECURSIVE ListsUpTo(_, _)
ListsUpTo(S, n) ==
  IF n = 0 THEN {<<>>}
  ELSE LET shorter == ListsUpTo(S, n - 1)
       IN shorter \cup {Append(l, v) : l \in shorter, v \in S}

ArgLists == ListsUpTo(ConsoleValues, MaxArgs)

\* typeof arg === "object"
TypeofObject(v) == v.kind \in {"object", "circular"}

\* JSON.stringify(arg, null, 2) throws
StringifyThrows(impl, v) == impl = 0 /\ v.kind = "circular"

\* JSON.stringify(arg, null, 2)
Stringify(impl, v) == IF impl = 0 THEN <<v.text>> ELSE <<OwnText(impl)>>

\* typeof arg === "object" ? JSON.stringify(arg, null, 2) : String(arg)
FormatArg(impl, v) == IF TypeofObject(v) THEN Stringify(impl, v) ELSE <<v.text>>

RECURSIVE JoinArgs(_, _)
\* args.map(...).join(" ")
JoinArgs(impl, args) ==
  IF args = <<>> THEN <<>>
  ELSE IF Len(args) = 1 THEN FormatArg(impl, args[1])
  ELSE FormatArg(impl, args[1]) \o <<" ">> \o JoinArgs(impl, Tail(args))

\* the call ends by an exception of the mapping function
CallThrows(impl, args) ==
  \E i \in 1..Len(args) : TypeofObject(args[i]) /\ StringifyThrows(impl, args[i])

\* the line console[ch](...args) pushes
ConsoleEntry(impl, ch, args) == ChannelPrefix(ch) \o JoinArgs(impl, args)

InitConsole ==
  /\ calls = <<>>
  /\ entries = <<>>

\* console.log / error / warn / info (...args), with the native JSON.stringify
ConsoleCall ==
  /\ Len(calls) < MaxCalls
  /\ \E ch \in AllChannels, args \in ArgLists :
       /\ calls' = Append(calls, <<ch, args>>)
       /\ entries' = IF CallThrows(0, args) THEN entries
                     ELSE Append(entries, ConsoleEntry(0, ch, args))
  /\ UNCHANGED exceptConsole

NextConsole == ConsoleCall

----------------------------------------------------------------------------
(* Two runs started side by side.  Each invocation has its own locals      *)
(* (logs, stdout) and its own promise; the host's JSON object, which       *)
(* executeJavaScript puts into every sandbox, is one object for all runs.  *)
(* A script can await between any two of its steps, so the steps of two    *)
(* runs interleave freely.  Run r writes only the text OwnText(r).         *)

PairMaxOut == 2
PairMaxLogs == 2

PairTags == {"javascript", "python", "shell"}
PairExitCodes == {"0", "1"}

\* const logs: string[] = []; let stdout = ""; the pending promise
NewRun ==
  [lang |-> "none", state |-> "none", stdout |-> <<>>, logs |-> <<>>,
   delivered |-> NoResult]

InitPair ==
  /\ run = [r \in Runs |-> NewRun]
  /\ stringify = 0

\* ipcMain.handle("execute-script") for run r
PairExecute(r) ==
  /\ run[r].state = "none"
  /\ \E tag \in PairTags :
       run' = [run EXCEPT ![r] = [NewRun EXCEPT !.lang = Dispatch(tag), !.state = "running"]]
  /\ UNCHANGED <<exceptPair, stringify>>

\* the script of run r calls console.log(arg)
PairConsole(r) ==
  /\ run[r].lang = "javascript"
  /\ run[r].state = "running"
  /\ Len(run[r].logs) < PairMaxLogs
  /\ \E v \in {JsString(OwnText(r)), JsObject} :
       run' = [run EXCEPT ![r].logs = Append(@, ConsoleEntry(stringify, "log", <<v>>))]
  /\ UNCHANGED <<exceptPair, stringify>>

\* the script of run r executes JSON.stringify = () => <its text>
PairAssignStringify(r) ==
  /\ run[r].lang = "javascript"
  /\ run[r].state = "running"
  /\ stringify # r
  /\ stringify' = r
  /\ UNCHANGED <<exceptPair, run>>

\* the script of run r returns: return { logs, result }
PairReturn(r) ==
  /\ run[r].lang = "javascript"
  /\ run[r].state = "running"
  /\ run' = [run EXCEPT ![r].state = "done",
                         ![r].delivered = JsReturn(run[r].logs, "undefined").value]
  /\ UNCHANGED <<exceptPair, stringify>>

\* the script of run r throws its text: the catch block answers
PairThrow(r) ==
  /\ run[r].lang = "javascript"
  /\ run[r].state = "running"
  /\ run' = [run EXCEPT ![r].state = "done",
                         ![r].delivered = JsCatch(run[r].logs, Primitive(OwnText(r))).value]
  /\ UNCHANGED <<exceptPair, stringify>>

\* child.stdout.on("data", ...) of run r
PairStdout(r) ==
  /\ IsSubprocess(run[r].lang)
  /\ run[r].state = "running"
  /\ Len(run[r].stdout) < PairMaxOut
  /\ \E c \in {OwnText(r), NL} : run' = [run EXCEPT ![r].stdout = Append(@, c)]
  /\ UNCHANGED <<exceptPair, stringify>>

\* child.on("close", ...) of run r
PairClose(r) ==
  /\ IsSubprocess(run[r].lang)
  /\ run[r].state = "running"
  /\ \E code \in PairExitCodes :
       LET res == OnClose(run[r].lang, run[r].logs, run[r].stdout, <<>>, code)
       IN run' = [run EXCEPT ![r].state = "done", ![r].logs = res.logs,
                             ![r].delivered = res]
  /\ UNCHANGED <<exceptPair, stringify>>

NextPair ==
  \E r \in Runs :
    \/ PairExecute(r)
    \/ PairConsole(r)
    \/ PairAssignStringify(r)
    \/ PairReturn(r)
    \/ PairThrow(r)
    \/ PairStdout(r)
    \/ PairClose(r)

----------------------------------------------------------------------------
(* executeShell: the environment of the child *)

\* process.platform, as far as executeShell tells platforms apart
Platforms == {"posix", "win32"}

\* the shell spawned for a platform
ShellOf(platform) == IF platform = "win32" THEN "cmd.exe" ELSE "/bin/bash"

\* names a script's parameter declarations can give
ParamNames == {"name", "HOME"}

\* parameter values: "x y", the empty text, "z", and a number
EnvValues ==
  {StringValue(<<"x", " ", "y">>), StringValue(<<>>), StringValue(<<"z">>),
   NumberValue(7)}

\* the maps from some of the names in ks to the values in vs
Records(ks, vs) == UNION {[d -> vs] : d \in SUBSET ks}

\* environments the host process can have been started with
HostEnvs ==
  {("HOME" :> <<"h">>) @@ ("PATH" :> <<"p">>),
   ("HOME" :> <<"h">>) @@ ("PATH" :> <<"p">>) @@ ("name" :> <<"o">>)}

\* String(value)
StringForm(v) == IF v.type = "string" THEN v.text ELSE NumberToString(v.num)

\* the inherited value wins over a parameter of the same name
ShellEnvInheritedWins(penv, ins) ==
  [k \in DOMAIN penv \cup DOMAIN ins |->
     IF k \in DOMAIN penv THEN penv[k] ELSE StringForm(ins[k])]

\* const env = { ...process.env }; for (...) env[key] = String(value)
ShellEnv(penv, ins) ==
  [k \in DOMAIN penv \cup DOMAIN ins |->
     IF k \in DOMAIN ins THEN StringForm(ins[k]) ELSE penv[k]]

RECURSIVE Words(_, _)
\* the fields of t split at blanks; w is the field being read
Words(t, w) ==
  IF t = <<>> THEN (IF w = <<>> THEN <<>> ELSE <<w>>)
  ELSE IF Head(t) = " "
  THEN (IF w = <<>> THEN <<>> ELSE <<w>>) \o Words(Tail(t), <<>>)
  ELSE Words(Tail(t), w \o <<Head(t)>>)

RECURSIVE JoinWords(_)
JoinWords(ws) ==
  IF ws = <<>> THEN <<>>
  ELSE IF Len(ws) = 1 THEN ws[1]
  ELSE ws[1] \o <<" ">> \o JoinWords(Tail(ws))

(* What the child writes for the code `echo $name`.  bash expands the      *)
(* unquoted variable (unset: nothing), splits it into fields and echo      *)
(* joins the fields with one blank; cmd.exe has no $ expansion and echoes  *)
(* the text as it stands, ending the line with "\r\n".                     *)
EchoName(platform, e) ==
  IF ShellOf(platform) = "/bin/bash"
  THEN JoinWords(Words(IF "name" \in DOMAIN e THEN e["name"] ELSE <<>>, <<>>)) \o <<NL>>
  ELSE <<"$", "n", "a", "m", "e", "\r", NL>>

InitEnv ==
  /\ inputs = <<>>
  /\ hostEnv = <<>>
  /\ env = <<>>
  /\ envPc = "idle"
  /\ shellLogs = <<>>
  /\ shellPlatform = "posix"

\* ipcMain.handle("execute-script") with language "shell" on some host
ShellRequest ==
  /\ envPc = "idle"
  /\ inputs' \in Records(ParamNames, EnvValues)
  /\ hostEnv' \in HostEnvs
  /\ shellPlatform' \in Platforms
  /\ envPc' = "input"
  /\ UNCHANGED <<exceptEnv, env, shellLogs>>

\* executeShell up to spawn(shell, [shellFlag, code], { cwd, env })
ShellSpawn ==
  /\ envPc = "input"
  /\ env' = ShellEnv(hostEnv, inputs)
  /\ envPc' = "spawned"
  /\ UNCHANGED <<exceptEnv, inputs, hostEnv, shellLogs, shellPlatform>>

\* the child ran `echo $name` and exited 0: child.on("close")
ShellEchoClose ==
  /\ envPc = "spawned"
  /\ shellLogs' = ShellOnClose(<<>>, EchoName(shellPlatform, env), <<>>, "0").logs
  /\ envPc' = "closed"
  /\ UNCHANGED <<exceptEnv, inputs, hostEnv, env, shellPlatform>>

\* the next request
ShellAgain ==
  /\ envPc = "closed"
  /\ envPc' = "idle"
  /\ UNCHANGED <<exceptEnv, inputs, hostEnv, env, shellLogs, shellPlatform>>

NextEnv ==
  \/ ShellRequest
  \/ ShellSpawn
  \/ ShellEchoClose
  \/ ShellAgain

----------------------------------------------------------------------------
(* executeScript: the delays of sleep, setTimeout and setInterval *)

SleepMaxMs == 30000
TimeoutMaxMs == 5000
IntervalMinMs == 100

\* a JavaScript number: an integer, or NaN (what a missing or non-numeric
\* argument becomes inside Math.min and Math.max)
Num(n) == [nan |-> FALSE, n |-> n]
NaN == [nan |-> TRUE, n |-> 0]

\* Math.min(a, b) and Math.max(a, b)
MathMin(a, b) == IF a.nan \/ b.nan THEN NaN ELSE Num(IF a.n < b.n THEN a.n ELSE b.n)
MathMax(a, b) == IF a.nan \/ b.nan THEN NaN ELSE Num(IF a.n > b.n THEN a.n ELSE b.n)

Helpers == {"sleep", "setTimeout", "setInterval"}

\* the delays a script asks for; NaN stands for a call without a delay
RequestedMs ==
  {NaN} \cup
  {Num(n) : n \in {-1, 0, 1, 99, 100, 101, 4999, 5000, 5001, 29999, 30000,
                   30001, 60000}}

\* the delay the helper hands to the host's setTimeout or setInterval
ClampedDelay(h, ms) ==
  CASE h = "sleep" -> MathMin(ms, Num(SleepMaxMs))
    [] h = "setTimeout" -> MathMin(ms, Num(TimeoutMaxMs))
    [] h = "setInterval" -> MathMax(ms, Num(IntervalMinMs))

\* the host's timers run a delay that is NaN or below 1 as 1 ms (every
\* delay requested here is below their upper limit of 2^31 - 1)
HostDelay(after) == IF ~after.nan /\ after.n >= 1 THEN after.n ELSE 1

InitClamp ==
  /\ helper = "none"
  /\ requested = NaN
  /\ registered = NaN
  /\ wait = 0
  /\ clampPc = "idle"

\* the script calls sleep(ms), setTimeout(fn, ms) or setInterval(fn, ms)
HelperCall ==
  /\ clampPc = "idle"
  /\ helper' \in Helpers
  /\ requested' \in RequestedMs
  /\ clampPc' = "called"
  /\ UNCHANGED <<exceptClamp, registered, wait>>

\* the helper registers the callback with the host's timer
HelperRegisters ==
  /\ clampPc = "called"
  /\ registered' = ClampedDelay(helper, requested)
  /\ wait' = HostDelay(ClampedDelay(helper, requested))
  /\ clampPc' = "registered"
  /\ UNCHANGED <<exceptClamp, helper, requested>>

\* the host's timer invokes the callback after the wait
TimerFires ==
  /\ clampPc = "registered"
  /\ clampPc' = "fired"
  /\ UNCHANGED <<exceptClamp, helper, requested, registered, wait>>

\* the script goes on to its next call
HelperDone ==
  /\ clampPc = "fired"
  /\ clampPc' = "idle"
  /\ UNCHANGED <<exceptClamp, helper, requested, registered, wait>>

NextClamp ==
  \/ HelperCall
  \/ HelperRegisters
  \/ TimerFires
  \/ HelperDone

----------------------------------------------------------------------------
(* App: the result view, the runs in flight and the hiding of the window *)

\* runs the user starts while the application is up
MaxRuns == 3
RunIds == 1..MaxRuns

\* useState<ScriptResult | null>(null)
NullResult == [run |-> 0, logs |-> 0, error |-> "null"]

(* What window.electronAPI.executeScript resolves with, as far as the     *)
(* presentation looks at it: the number of log entries and the error      *)
(* field, which is unset, the empty text (a script's `throw ""`) or a     *)
(* message.                                                               *)
ResolvedResults ==
  [logs : {0, 1}, error : {"undefined", "empty", "text"}]

\* the catch branch: { logs: [], result: undefined, error: <message> }
RejectedResult == [logs |-> 0, error |-> "text"]

\* !res.error
NoError(res) == res.error \in {"undefined", "empty"}

\* the auto-hide condition looking at the logs only
SilentSuccessLogsOnly(res) == res.logs = 0

\* res.logs.length === 0 && !res.error
SilentSuccess(res) == res.logs = 0 /\ NoError(res)

\* the result state holding what run r produced
ResultOf(r, res) == [run |-> r, logs |-> res.logs, error |-> res.error]

InitApp ==
  /\ viewMode = "list"
  /\ result = NullResult
  /\ runs = [r \in RunIds |-> "none"]
  /\ latest = 0
  /\ hideTimers = {}
  /\ isVisible = FALSE
  /\ outcome = [r \in RunIds |-> NullResult]
  /\ scheduledHide = {}

\* toggleWindow / openSettings while hidden: showWindow, then the renderer's
\* onWindowShown
ShowWindow ==
  /\ ~isVisible
  /\ isVisible' = TRUE
  /\ viewMode' = "list"
  /\ UNCHANGED <<exceptApp, result, runs, latest, hideTimers, outcome, scheduledHide>>

\* blur, the shortcut, the tray or Escape in the list: hideWindow, then the
\* renderer's onWindowHidden
HideWindow ==
  /\ isVisible
  /\ isVisible' = FALSE
  /\ result' = NullResult
  /\ UNCHANGED <<exceptApp, viewMode, runs, latest, hideTimers, outcome, scheduledHide>>

\* the tray's Settings entry while the window is shown: onToggleSettings
ToggleSettings ==
  /\ isVisible
  /\ viewMode' = IF viewMode = "settings" THEN "list" ELSE "settings"
  /\ UNCHANGED <<exceptApp, result, runs, latest, hideTimers, isVisible, outcome,
                 scheduledHide>>

\* onRunScript for a script with parameters: the input form opens
OpenInputForm ==
  /\ isVisible
  /\ viewMode = "list"
  /\ viewMode' = "input"
  /\ UNCHANGED <<exceptApp, result, runs, latest, hideTimers, isVisible, outcome,
                 scheduledHide>>

\* InputForm onCancel
CancelInputForm ==
  /\ isVisible
  /\ viewMode = "input"
  /\ viewMode' = "list"
  /\ UNCHANGED <<exceptApp, result, runs, latest, hideTimers, isVisible, outcome,
                 scheduledHide>>

\* executeScript up to its await: setViewMode("result") and the IPC call
StartRun ==
  /\ isVisible
  /\ viewMode \in {"list", "input"}
  /\ latest < MaxRuns
  /\ latest' = latest + 1
  /\ runs' = [runs EXCEPT ![latest + 1] = "pending"]
  /\ viewMode' = "result"
  /\ UNCHANGED <<exceptApp, result, hideTimers, isVisible, outcome, scheduledHide>>

\* executeScript after its await resolved: setResult(res) and, for a silent
\* success, setTimeout(() => hideWindow(), 500)
RunResolves(r) ==
  /\ runs[r] = "pending"
  /\ \E res \in ResolvedResults :
       /\ result' = ResultOf(r, res)
       /\ outcome' = [outcome EXCEPT ![r] = ResultOf(r, res)]
       /\ IF SilentSuccess(res)
          THEN /\ hideTimers' = hideTimers \cup {r}
               /\ scheduledHide' = scheduledHide \cup {r}
          ELSE UNCHANGED <<hideTimers, scheduledHide>>
  /\ runs' = [runs EXCEPT ![r] = "done"]
  /\ UNCHANGED <<exceptApp, viewMode, latest, isVisible>>

\* executeScript after its await rejected: the catch branch
RunRejects(r) ==
  /\ runs[r] = "pending"
  /\ result' = ResultOf(r, RejectedResult)
  /\ outcome' = [outcome EXCEPT ![r] = ResultOf(r, RejectedResult)]
  /\ runs' = [runs EXCEPT ![r] = "done"]
  /\ UNCHANGED <<exceptApp, viewMode, latest, hideTimers, isVisible, scheduledHide>>

\* ResultView onClose: the back button of a displayed result
CloseResult ==
  /\ isVisible
  /\ viewMode = "result"
  /\ result # NullResult
  /\ result' = NullResult
  /\ viewMode' = "list"
  /\ UNCHANGED <<exceptApp, runs, latest, hideTimers, isVisible, outcome, scheduledHide>>

\* the 500 ms timer of run r: window.electronAPI.hideWindow(), that is
\* hideWindow in the main process and onWindowHidden in the renderer
HideTimerFires(r) ==
  /\ r \in hideTimers
  /\ hideTimers' = hideTimers \ {r}
  /\ IF isVisible
     THEN /\ isVisible' = FALSE
          /\ result' = NullResult
     ELSE UNCHANGED <<isVisible, result>>
  /\ UNCHANGED <<exceptApp, viewMode, runs, latest, outcome, scheduledHide>>

NextApp ==
  \/ ShowWindow
  \/ HideWindow
  \/ ToggleSettings
  \/ OpenInputForm
  \/ CancelInputForm
  \/ StartRun
  \/ \E r \in RunIds : RunResolves(r)
  \/ \E r \in RunIds : RunRejects(r)
  \/ CloseResult
  \/ \E r \in RunIds : HideTimerFires(r)

----------------------------------------------------------------------------
(* Main process: the global shortcut and the settings file *)

\* let currentShortcut = "Alt+Space"; DEFAULT_SETTINGS.shortcut
DefaultShortcut == "Alt+Space"

\* accelerators the settings view can send; "Bogus" is no valid accelerator
\* and makes globalShortcut.register throw
ValidAccelerators == {"Alt+Space", "Ctrl+K", "Ctrl+J"}
Accelerators == ValidAccelerators \cup {"Bogus"}

\* globalShortcut.register(k, ...) returns true
RegisterSucceeds(k, taken) == k \in ValidAccelerators /\ k \notin taken

(* registerGlobalShortcut(shortcut): unregisterAll, then the requested     *)
(* accelerator; when that returns false or throws and the request was not *)
(* the default, the default is registered without looking at the outcome  *)
(* and currentShortcut is set to it.  Gives the accelerators registered,  *)
(* currentShortcut and the value returned.                                *)
RegisterGlobalShortcut(shortcut, current, taken) ==
  IF RegisterSucceeds(shortcut, taken)
  THEN [keys |-> {shortcut}, current |-> shortcut, ret |-> TRUE]
  ELSE IF shortcut # DefaultShortcut
  THEN [keys |-> IF RegisterSucceeds(DefaultShortcut, taken)
                 THEN {DefaultShortcut} ELSE {},
        current |-> DefaultShortcut, ret |-> FALSE]
  ELSE [keys |-> {}, current |-> current, ret |-> FALSE]

InitShortcut ==
  /\ registeredKeys = {}
  /\ currentShortcut = DefaultShortcut
  /\ savedShortcut = DefaultShortcut
  /\ savedBefore = DefaultShortcut
  /\ takenKeys = {}
  /\ lastReturn = "none"

\* app.whenReady: currentShortcut = loadSettings().shortcut, then
\* registerGlobalShortcut(currentShortcut)
AppReady ==
  /\ lastReturn = "none"
  /\ LET r == RegisterGlobalShortcut(savedShortcut, savedShortcut, takenKeys)
     IN /\ registeredKeys' = r.keys
        /\ currentShortcut' = r.current
        /\ lastReturn' = IF r.ret THEN "true" ELSE "false"
  /\ savedBefore' = savedShortcut
  /\ UNCHANGED <<exceptShortcut, savedShortcut, takenKeys>>

\* ipcMain.handle("save-settings"): registerGlobalShortcut, and saveSettings
\* when it succeeded
SaveSettings(shortcut) ==
  /\ lastReturn # "none"
  /\ LET r == RegisterGlobalShortcut(shortcut, currentShortcut, takenKeys)
     IN /\ registeredKeys' = r.keys
        /\ currentShortcut' = r.current
        /\ lastReturn' = IF r.ret THEN "true" ELSE "false"
        /\ savedShortcut' = IF r.ret THEN shortcut ELSE savedShortcut
  /\ savedBefore' = savedShortcut
  /\ UNCHANGED <<exceptShortcut, takenKeys>>

\* another application registers an accelerator nobody holds
OtherAppTakes(k) ==
  /\ k \notin takenKeys
  /\ k \notin registeredKeys
  /\ takenKeys' = takenKeys \cup {k}
  /\ UNCHANGED <<exceptShortcut, registeredKeys, currentShortcut, savedShortcut,
                 savedBefore, lastReturn>>

\* another application gives its accelerator up
OtherAppReleases(k) ==
  /\ k \in takenKeys
  /\ takenKeys' = takenKeys \ {k}
  /\ UNCHANGED <<exceptShortcut, registeredKeys, currentShortcut, savedShortcut,
                 savedBefore, lastReturn>>

\* app.on("will-quit"): unregisterAll; the next start begins with
\* currentShortcut = "Alt+Space"
AppQuits ==
  /\ lastReturn # "none"
  /\ registeredKeys' = {}
  /\ currentShortcut' = DefaultShortcut
  /\ lastReturn' = "none"
  /\ UNCHANGED <<exceptShortcut, savedShortcut, savedBefore, takenKeys>>

NextShortcut ==
  \/ AppReady
  \/ \E k \in Accelerators : SaveSettings(k)
  \/ \E k \in ValidAccelerators : OtherAppTakes(k)
  \/ \E k \in ValidAccelerators : OtherAppReleases(k)
  \/ AppQuits

----------------------------------------------------------------------------
(* useScriptStore: scripts, folders and the script-to-folder map *)

\* ids the store can mint, in the order it mints them: "s1" is the example
\* script's, the others come from `script-${Date.now()}-...` and
\* `folder-${Date.now()}-...`
ScriptIdOrder == <<"s1", "s2">>
FolderIdOrder == <<"f1", "f2">>
ScriptIds == {ScriptIdOrder[i] : i \in DOMAIN ScriptIdOrder}
FolderIds == {FolderIdOrder[i] : i \in DOMAIN FolderIdOrder}

\* the ids of order not minted yet, the next one to mint first
Unminted(order, used) == SelectSeq(order, LAMBDA id : id \notin used)
FolderNames == {"a", "b"}
\* the longest id list handed to reorderScripts and reorderFolders
MaxIds == 2

\* null as a folder id
NullId == "null"

ItemsOf(seq) == {seq[i] : i \in DOMAIN seq}
FolderIdsOf(fs) == {fs[i].id : i \in DOMAIN fs}

\* how many times x occurs in seq
CountOf(seq, x) == Cardinality({i \in DOMAIN seq : seq[i] = x})

\* the sequences over S of length at most n
SeqsUpTo(S, n) == UNION {[1..k -> S] : k \in 0..n}

\* prev.scriptFolderMap[id] ?? null
FolderOfScript(m, id) == IF id \in DOMAIN m THEN m[id] ELSE NullId

\* { ...m, [k]: v }
MapWith(m, k, v) == [x \in DOMAIN m \cup {k} |-> IF x = k THEN v ELSE m[x]]

\* const { [id]: _, ...restMap } = m
MapWithout(m, k) == [x \in DOMAIN m \ {k} |-> m[x]]

RECURSIVE FolderIdsToDelete(_, _)
\* deleteFolder's loop: the ids in set and every folder below one of them
FolderIdsToDelete(fs, set) ==
  LET more == set \cup {fs[i].id : i \in {j \in DOMAIN fs : fs[j].parentId \in set}}
  IN IF more = set THEN set ELSE FolderIdsToDelete(fs, more)

\* deleteFolder's map: the entries equal to id become null
UnfiledFrom(m, id) == [k \in DOMAIN m |-> IF m[k] = id THEN NullId ELSE m[k]]

\* ids.map((id) => map.get(id)).filter((x) => x !== undefined), as the ids
\* the Map holds an item for
Found(ids, known) == SelectSeq(ids, LAMBDA id : id \in known)

\* reorderScripts(scriptIds) on the list ss
ReorderScriptsOf(ss, ids) ==
  Found(ids, ItemsOf(ss))
    \o SelectSeq(ss, LAMBDA x : x \notin ItemsOf(ids))

\* reorderFolders(folderIds) on the list fs
ReorderFoldersOf(fs, ids) ==
  [i \in DOMAIN Found(ids, FolderIdsOf(fs)) |->
     CHOOSE f \in ItemsOf(fs) : f.id = Found(ids, FolderIdsOf(fs))[i]]
    \o SelectSeq(fs, LAMBDA f : f.id \notin ItemsOf(ids))

\* scriptsWithoutMoving.findIndex((s) => s.id === target), 0 for -1
FindIndex(seq, x) ==
  IF x \in ItemsOf(seq) THEN CHOOSE i \in DOMAIN seq : seq[i] = x /\ \A j \in 1..(i - 1) : seq[j] # x
  ELSE 0

\* the scripts list of moveScriptToFolderAtPosition when the script exists
MovedAtPosition(ss, scriptId, target, position) ==
  LET rest == SelectSeq(ss, LAMBDA x : x # scriptId)
      at == FindIndex(rest, target)
      k == IF position = "before" THEN at - 1 ELSE at
  IN IF at = 0 THEN rest \o <<scriptId>>
     ELSE SubSeq(rest, 1, k) \o <<scriptId>> \o SubSeq(rest, k + 1, Len(rest))

InitStore ==
  /\ scripts = <<"s1">>
  /\ folders = <<>>
  /\ scriptFolderMap = <<>>
  /\ usedIds = {"s1"}
  /\ lastOp = "none"

\* addScript: a script with a fresh id is appended
AddScript ==
  /\ Unminted(ScriptIdOrder, usedIds) # <<>>
  /\ LET id == Head(Unminted(ScriptIdOrder, usedIds))
     IN /\ scripts' = scripts \o <<id>>
        /\ usedIds' = usedIds \cup {id}
  /\ lastOp' = "other"
  /\ UNCHANGED <<exceptStore, folders, scriptFolderMap>>

\* deleteScript(id)
DeleteScript(id) ==
  /\ scripts' = SelectSeq(scripts, LAMBDA x : x # id)
  /\ scriptFolderMap' = MapWithout(scriptFolderMap, id)
  /\ lastOp' = "other"
  /\ UNCHANGED <<exceptStore, folders, usedIds>>

\* duplicateScript(script): the copy gets a fresh id and the original's folder
DuplicateScript(src) ==
  /\ src \in ItemsOf(scripts)
  /\ Unminted(ScriptIdOrder, usedIds) # <<>>
  /\ LET id == Head(Unminted(ScriptIdOrder, usedIds))
     IN /\ scripts' = scripts \o <<id>>
        /\ scriptFolderMap' = MapWith(scriptFolderMap, id, FolderOfScript(scriptFolderMap, src))
        /\ usedIds' = usedIds \cup {id}
  /\ lastOp' = "other"
  /\ UNCHANGED <<exceptStore, folders>>

\* addFolder(name, parentId)
AddFolder(name, parentId) ==
  /\ Unminted(FolderIdOrder, usedIds) # <<>>
  /\ LET id == Head(Unminted(FolderIdOrder, usedIds))
     IN /\ folders' = folders \o <<[id |-> id, parentId |-> parentId, name |-> name]>>
        /\ usedIds' = usedIds \cup {id}
  /\ lastOp' = "other"
  /\ UNCHANGED <<exceptStore, scripts, scriptFolderMap>>

\* updateFolder(id, name)
UpdateFolder(id, name) ==
  /\ folders' = [i \in DOMAIN folders |->
                   IF folders[i].id = id THEN [folders[i] EXCEPT !.name = name]
                   ELSE folders[i]]
  /\ lastOp' = "other"
  /\ UNCHANGED <<exceptStore, scripts, scriptFolderMap, usedIds>>

\* deleteFolder(id)
DeleteFolder(id) ==
  /\ scriptFolderMap' = UnfiledFrom(scriptFolderMap, id)
  /\ folders' = SelectSeq(folders, LAMBDA f : f.id \notin FolderIdsToDelete(folders, {id}))
  /\ lastOp' = "other"
  /\ UNCHANGED <<exceptStore, scripts, usedIds>>

\* moveScriptToFolder(scriptId, folderId)
MoveScriptToFolder(scriptId, folderId) ==
  /\ scriptFolderMap' = MapWith(scriptFolderMap, scriptId, folderId)
  /\ lastOp' = "other"
  /\ UNCHANGED <<exceptStore, scripts, folders, usedIds>>

\* moveScriptToFolderAtPosition(scriptId, folderId, targetScriptId, position)
MoveScriptToFolderAtPosition(scriptId, folderId, target, position) ==
  /\ IF scriptId \in ItemsOf(scripts)
     THEN /\ scripts' = MovedAtPosition(scripts, scriptId, target, position)
          /\ scriptFolderMap' = MapWith(scriptFolderMap, scriptId, folderId)
     ELSE UNCHANGED <<scripts, scriptFolderMap>>
  /\ lastOp' = "moveScriptToFolderAtPosition"
  /\ UNCHANGED <<exceptStore, folders, usedIds>>

\* reorderScripts(scriptIds)
ReorderScripts(ids) ==
  /\ scripts' = ReorderScriptsOf(scripts, ids)
  /\ lastOp' = "reorderScripts"
  /\ UNCHANGED <<exceptStore, folders, scriptFolderMap, usedIds>>

\* reorderFolders(folderIds)
ReorderFolders(ids) ==
  /\ folders' = ReorderFoldersOf(folders, ids)
  /\ lastOp' = "reorderFolders"
  /\ UNCHANGED <<exceptStore, scripts, scriptFolderMap, usedIds>>

\* folder ids the callers can name: null and the folders in the state
ExistingOrNull == FolderIdsOf(folders) \cup {NullId}

NextStore ==
  \/ AddScript
  \/ \E id \in ScriptIds : DeleteScript(id)
  \/ \E src \in ScriptIds : DuplicateScript(src)
  \/ \E name \in FolderNames, parentId \in (FolderIds \cap usedIds) \cup {NullId} :
       AddFolder(name, parentId)
  \/ \E id \in FolderIds, name \in FolderNames : UpdateFolder(id, name)
  \/ \E id \in FolderIds : DeleteFolder(id)
  \/ \E id \in ItemsOf(scripts), f \in ExistingOrNull : MoveScriptToFolder(id, f)
  \/ \E id \in ScriptIds, f \in ExistingOrNull, target \in ScriptIds,
        position \in {"before", "after"} :
       MoveScriptToFolderAtPosition(id, f, target, position)
  \/ \E ids \in SeqsUpTo(ScriptIds, MaxIds) : ReorderScripts(ids)
  \/ \E ids \in SeqsUpTo(FolderIds, MaxIds) : ReorderFolders(ids)

----------------------------------------------------------------------------
(* Initial state: the handlers are registered, no run was requested *)

InitExec ==
  /\ now = 0
  /\ host = "idle"
  /\ lang = "none"
  /\ phase = "none"
  /\ child = "none"
  /\ errorSeen = FALSE
  /\ stdout = <<>>
  /\ stderr = <<>>
  /\ logs = <<>>
  /\ timer = "none"
  /\ deadline = 0
  /\ kills = 0
  /\ promise = "pending"
  /\ delivered = NoResult
  /\ settledBy = "none"
  /\ resolvedAt = 0
  /\ exitSeen = "none"
  /\ produced = <<>>
  /\ thrown = NothingThrown
  /\ lineStarts = <<>>
  /\ request = "none"


----------------------------------------------------------------------------
(* ipcMain.handle("execute-script") and ipcMain.handle("run-command") *)

SpawnChild(l) ==
  /\ lang' = l
  /\ child' = "running"
  /\ timer' = "armed"
  /\ deadline' = now + TimeoutOf(l)
  /\ UNCHANGED <<others, lineStarts, now, host, phase, errorSeen, stdout, stderr, logs, kills,
                 exitSeen, produced, thrown>>
  /\ NotSettled

\* spawn() itself throws (an argument longer than the operating system allows,
\* E2BIG, or one holding a NUL character): the exception leaves the Promise
\* executor before any handler or timer is set, and the promise is rejected
SpawnThrows(l) ==
  /\ lang' = l
  /\ promise' = "rejected"
  /\ settledBy' = "spawn"
  /\ resolvedAt' = now
  /\ UNCHANGED <<others, lineStarts, now, host, phase, child, errorSeen, stdout, stderr, logs,
                 timer, deadline, kills, delivered, exitSeen, produced, thrown>>

\* executeJavaScript up to script.runInContext: new vm.Script either throws
\* (caught, the run ends at once) or the evaluation starts on the host thread
StartJavaScript(compiles) ==
  /\ lang' = "javascript"
  /\ IF compiles
     THEN /\ phase' = "sync"
          /\ host' = "script"
          /\ thrown' = thrown
          /\ NotSettled
     ELSE /\ phase' = "ended"
          /\ host' = host
          /\ thrown' = CompileError
          /\ Settle(JsCatch(logs, CompileError), "throw")
  /\ UNCHANGED <<others, lineStarts, now, child, errorSeen, stdout, stderr, logs, timer, deadline,
                 kills, exitSeen, produced>>

ExecuteScript ==
  /\ lang = "none"
  /\ host = "idle"
  /\ \E tag \in LanguageTags :
       /\ request' = tag
       /\ IF Dispatch(tag) = "javascript"
          THEN \E compiles \in BOOLEAN : StartJavaScript(compiles)
          ELSE \/ SpawnChild(Dispatch(tag))
               \/ SpawnThrows(Dispatch(tag))

RunCommand ==
  /\ lang = "none"
  /\ host = "idle"
  /\ request' = request
  /\ \/ SpawnChild("command")
     \/ SpawnThrows("command")

----------------------------------------------------------------------------
(* The JavaScript evaluation: steps of the script while it holds the host  *)
(* thread, and the executor's race against its 10 s timer.                 *)

\* console.log / console.error ... : logs.push(line)
JsConsole ==
  /\ phase = "sync"
  /\ Len(logs) < MaxLogs
  /\ \E ch \in ConsoleChannels, a \in ConsoleArgs :
       /\ logs' = Append(logs, ConsoleLine(ch, a))
       /\ produced' = Append(produced, <<"console", ConsoleLine(ch, a)>>)
  /\ UNCHANGED <<others, lineStarts, request, now, host, lang, phase, child, errorSeen, stdout, stderr,
                 timer, deadline, kills, exitSeen, thrown>>
  /\ NotSettled

\* exec(command): execSync blocks the host thread until the command ends; a
\* non-empty trimmed output is pushed to logs as one entry.  (A failing
\* command makes exec throw a host Error: see JsScriptThrows.)
JsExec ==
  /\ phase = "sync"
  /\ Len(logs) < MaxLogs
  /\ \E out \in ExecOutputs :
       /\ logs' = IF out # <<>> THEN Append(logs, out) ELSE logs
       /\ produced' = IF out # <<>> THEN Append(produced, <<"exec", out>>) ELSE produced
  /\ UNCHANGED <<others, lineStarts, request, now, host, lang, phase, child, errorSeen, stdout, stderr,
                 timer, deadline, kills, exitSeen, thrown>>
  /\ NotSettled

\* The synchronous segment ends and the thread is released.  When it was the
\* first one, runInContext returns here and the executor creates its timer.
ReleaseHost ==
  /\ host' = "idle"
  /\ IF timer = "none"
     THEN timer' = "armed" /\ deadline' = now + JsTimeoutMs
     ELSE UNCHANGED <<timer, deadline>>

\* the script reaches an await on something still pending
JsAwait ==
  /\ phase = "sync"
  /\ phase' = "suspended"
  /\ ReleaseHost
  /\ UNCHANGED <<others, lineStarts, request, now, lang, child, errorSeen, stdout, stderr, logs, kills,
                 exitSeen, produced, thrown>>
  /\ NotSettled

\* the script body completes: resultPromise fulfils, the race settles with it
JsScriptReturns ==
  /\ phase = "sync"
  /\ phase' = "ended"
  /\ ReleaseHost
  /\ \E v \in ReturnValues : Settle(JsReturn(logs, v), "return")
  /\ UNCHANGED <<others, lineStarts, request, now, lang, child, errorSeen, stdout, stderr, logs, kills,
                 exitSeen, produced, thrown>>

\* the script throws: resultPromise rejects, await throws into the catch
JsScriptThrows ==
  /\ phase = "sync"
  /\ phase' = "ended"
  /\ ReleaseHost
  /\ \E e \in ScriptThrows :
       /\ thrown' = IF promise = "pending" THEN e ELSE thrown
       /\ Settle(JsCatch(logs, e), "throw")
  /\ UNCHANGED <<others, lineStarts, request, now, lang, child, errorSeen, stdout, stderr, logs, kills,
                 exitSeen, produced>>

\* what the script awaited settles: the evaluation continues on the host thread
JsResume ==
  /\ phase = "suspended"
  /\ host = "idle"
  /\ phase' = "sync"
  /\ host' = "script"
  /\ UNCHANGED <<others, lineStarts, request, now, lang, child, errorSeen, stdout, stderr, logs, timer,
                 deadline, kills, exitSeen, produced, thrown>>
  /\ NotSettled

\* setTimeout(() => reject(new Error("... timed out (10s)")), 10000)
JsTimeout ==
  /\ lang = "javascript"
  /\ host = "idle"
  /\ timer = "armed"
  /\ now >= deadline
  /\ timer' = "fired"
  /\ thrown' = IF promise = "pending" THEN TimeoutError ELSE thrown
  /\ Settle(JsCatch(logs, TimeoutError), "timer")
  /\ UNCHANGED <<others, lineStarts, request, now, host, lang, phase, child, errorSeen, stdout, stderr,
                 logs, deadline, kills, exitSeen, produced>>

----------------------------------------------------------------------------
(* The subprocess executors' callbacks *)

\* the character c, appended to the text s of a stream, begins a new
\* non-empty line
BeginsLine(s, c) == c # NL /\ (s = <<>> \/ s[Len(s)] = NL)

\* child.stdout.on("data", ...)
ChildStdout ==
  /\ child = "running"
  /\ host = "idle"
  /\ Len(stdout) < MaxOut
  /\ \E c \in OutChars :
       /\ stdout' = Append(stdout, c)
       /\ lineStarts' = IF BeginsLine(stdout, c) THEN Append(lineStarts, "out") ELSE lineStarts
  /\ UNCHANGED <<others, request, now, host, lang, phase, child, errorSeen, stderr, logs, timer,
                 deadline, kills, exitSeen, produced, thrown>>
  /\ NotSettled

\* child.stderr.on("data", ...)
ChildStderr ==
  /\ child = "running"
  /\ host = "idle"
  /\ Len(stderr) < MaxErrOut
  /\ \E c \in ErrChars :
       /\ stderr' = Append(stderr, c)
       /\ lineStarts' = IF BeginsLine(stderr, c) THEN Append(lineStarts, "err") ELSE lineStarts
  /\ UNCHANGED <<others, request, now, host, lang, phase, child, errorSeen, stdout, logs, timer,
                 deadline, kills, exitSeen, produced, thrown>>
  /\ NotSettled

\* child.on("close", (exitCode) => ...)
ChildClose ==
  /\ child \in {"running", "failed"}
  /\ host = "idle"
  /\ \E code \in (IF child = "failed" THEN {SpawnFailureCode} ELSE ExitCodes) :
       /\ exitSeen' = code
       /\ logs' = OnClose(lang, logs, stdout, stderr, code).logs
       /\ Settle(Outcome("resolved", OnClose(lang, logs, stdout, stderr, code)), "close")
  /\ child' = "closed"
  /\ UNCHANGED <<others, lineStarts, request, now, host, lang, phase, errorSeen, stdout, stderr, timer,
                 deadline, kills, produced, thrown>>

\* child.on("error", (err) => ...): the program could not be started.  Node
\* emits the event on the next tick after spawn(), ahead of every timer and
\* stream event, and emits close afterwards.
ChildError ==
  /\ child = "running"
  /\ host = "idle"
  /\ ~errorSeen
  /\ timer = "armed"
  /\ deadline = now + TimeoutOf(lang)
  /\ stdout = <<>>
  /\ stderr = <<>>
  /\ errorSeen' = TRUE
  /\ child' = "failed"
  /\ \E msg \in SystemErrors :
       Settle(Outcome("resolved", OnError(lang, logs, msg)), "error")
  /\ UNCHANGED <<others, lineStarts, request, now, host, lang, phase, stdout, stderr, logs, timer,
                 deadline, kills, exitSeen, produced, thrown>>

\* setTimeout(() => { child.kill(); resolve({... timed out ...}) }, 10000 | 30000)
ChildTimeout ==
  /\ IsSubprocess(lang)
  /\ host = "idle"
  /\ timer = "armed"
  /\ now >= deadline
  /\ timer' = "fired"
  /\ kills' = kills + 1
  /\ Settle(Outcome("resolved", OnTimeout(lang, logs)), "timer")
  /\ UNCHANGED <<others, lineStarts, request, now, host, lang, phase, child, errorSeen, stdout, stderr,
                 logs, deadline, exitSeen, produced, thrown>>

----------------------------------------------------------------------------
(* The host thread and the clock *)

\* another execute-script request evaluates synchronous JavaScript (script
\* code, or the exec helper's execSync) on the host thread
OtherScriptBegins ==
  /\ lang # "none"
  /\ host = "idle"
  /\ host' = "other"
  /\ UNCHANGED <<others, lineStarts, request, now, lang, phase, child, errorSeen, stdout, stderr, logs,
                 timer, deadline, kills, exitSeen, produced, thrown>>
  /\ NotSettled

OtherScriptYields ==
  /\ host = "other"
  /\ host' = "idle"
  /\ UNCHANGED <<others, lineStarts, request, now, lang, phase, child, errorSeen, stdout, stderr, logs,
                 timer, deadline, kills, exitSeen, produced, thrown>>
  /\ NotSettled

\* a timer callback is due and the thread is free to run it
TimerDue == host = "idle" /\ timer = "armed" /\ now >= deadline

NextInstant ==
  Min({now + TickMs} \cup (IF timer = "armed" /\ deadline > now THEN {deadline} ELSE {}))

\* time passes; a due timer callback runs as soon as the host thread is free
Tick ==
  /\ lang # "none"
  /\ now < MaxTimeMs
  /\ ~TimerDue
  /\ now' = NextInstant
  /\ UNCHANGED <<others, lineStarts, request, host, lang, phase, child, errorSeen, stdout, stderr, logs,
                 timer, deadline, kills, exitSeen, produced, thrown>>
  /\ NotSettled

NextExec ==
  \/ ExecuteScript
  \/ RunCommand
  \/ JsConsole
  \/ JsExec
  \/ JsAwait
  \/ JsScriptReturns
  \/ JsScriptThrows
  \/ JsResume
  \/ JsTimeout
  \/ ChildStdout
  \/ ChildStderr
  \/ ChildClose
  \/ ChildError
  \/ ChildTimeout
  \/ OtherScriptBegins
  \/ OtherScriptYields
  \/ Tick

Init ==
  /\ InitExec
  /\ InitInjectIdle
  /\ InitConsole
  /\ InitPair
  /\ InitEnv
  /\ InitClamp
  /\ InitApp
  /\ InitShortcut
  /\ InitStore

Next == NextExec

Spec == Init /\ [][Next]_vars

InjectInit ==
  /\ InitExec
  /\ InitInject
  /\ InitConsole
  /\ InitPair
  /\ InitEnv
  /\ InitClamp
  /\ InitApp
  /\ InitShortcut
  /\ InitStore

SpecInject == InjectInit /\ [][NextInject]_vars

SpecConsole == Init /\ [][NextConsole]_vars

SpecPair == Init /\ [][NextPair]_vars

SpecEnv == Init /\ [][NextEnv]_vars

SpecClamp == Init /\ [][NextClamp]_vars

SpecApp == Init /\ [][NextApp]_vars

SpecShortcut == Init /\ [][NextShortcut]_vars

SpecStore == Init /\ [][NextStore]_vars


----------------------------------------------------------------------------
(* Claims *)

ErrorSet == delivered.error # Undefined

RECURSIVE LinesOf(_)
\* the lines of a sequence of <<binding, line>> entries
LinesOf(ps) == IF ps = <<>> THEN <<>> ELSE <<Head(ps)[2]>> \o LinesOf(Tail(ps))

\* every line pushed so far, and those emitted through the console facade
Pushed == LinesOf(produced)
Emitted == LinesOf(SelectSeq(produced, LAMBDA e : e[1] = "console"))

\* C1 as stated: the promise of execute-script / run-command is never
\* rejected: once settled it holds a Script Result, and a thrown failure, a
\* timeout or a launch failure shows only as that result's error field.
C1_Original ==
  /\ promise \in {"pending", "resolved"}
  /\ promise = "pending" => delivered = NoResult
  /\ promise = "resolved" =>
       /\ delivered.result \in ReturnValues
       /\ settledBy \in {"throw", "timer", "error"} => ErrorSet

\* C2 as stated: error is set iff the run did not complete successfully,
\* i.e. ended by non-zero exit, thrown exception, timeout (or failed launch).
C2_Original ==
  promise = "resolved" =>
    (ErrorSet <=> \/ settledBy \in {"timer", "throw", "error"}
                  \/ settledBy = "close" /\ exitSeen # "0")

\* C2 amended: error is set iff the run ended by timeout, launch failure,
\* thrown exception or non-zero exit, or, in the Python executor only, the
\* child exited with code 0 after writing to standard error.
C2_ErrorIffFailed ==
  promise = "resolved" =>
    (ErrorSet <=> \/ settledBy \in {"timer", "throw", "error"}
                  \/ settledBy = "close" /\ exitSeen # "0"
                  \/ settledBy = "close" /\ lang = "python" /\ stderr # <<>>)

C2_Witness ==
  /\ lang = "python"
  /\ settledBy = "close"
  /\ exitSeen = "0"
  /\ stderr # <<>>
  /\ ErrorSet

\* C3: in a subprocess run the completion source that fires first decides the
\* result; the caller gets that one result and no later event replaces it.
C3_FirstSourceDecides ==
  /\ [](IsSubprocess(lang) /\ promise = "resolved" =>
          /\ settledBy \in {"close", "error", "timer"}
          /\ (settledBy = "timer" <=> delivered.error = TimeoutMessage(lang))
          /\ (settledBy = "error" <=>
                \E msg \in SystemErrors : delivered.error = LaunchFailure(lang, msg)))
  /\ [][IsSubprocess(lang) /\ promise # "pending" =>
          /\ promise' = promise
          /\ delivered' = delivered
          /\ settledBy' = settledBy]_vars

C3_Witness ==
  /\ IsSubprocess(lang)
  /\ settledBy = "error"
  /\ child = "closed"
  /\ timer = "fired"

\* C4 as stated: a subprocess run still open at its deadline (10 s Python,
\* 30 s shell / run-command) is resolved at that deadline by the timer, with
\* the timeout error and a kill; the caller never waits past the deadline.
C4_Original ==
  IsSubprocess(lang) /\ child # "none" /\ now > deadline =>
    /\ promise = "resolved"
    /\ resolvedAt <= deadline
    /\ settledBy = "timer" => delivered.error = TimeoutMessage(lang) /\ kills > 0

\* C5 as stated: a JavaScript run that has not completed after 10 s ends with
\* the timeout error, and the caller does not wait beyond about 10 s.
C5_Original ==
  lang = "javascript" /\ now > JsTimeoutMs + TickMs =>
    /\ promise = "resolved"
    /\ resolvedAt <= JsTimeoutMs + TickMs
    /\ resolvedAt >= JsTimeoutMs => delivered.error = TimeoutMessage("javascript")

\* C6 as stated: when a subprocess run ends by timeout, every non-empty line
\* written to standard output before the deadline is in the result's logs.
C6_Original ==
  [][/\ IsSubprocess(lang)
     /\ promise = "pending"
     /\ settledBy' = "timer"
     /\ stdout # <<>>
     /\ stdout[Len(stdout)] = NL
     => \A i \in 1..Len(NonEmptyLines(stdout)) :
          \E j \in 1..Len(delivered'.logs) :
            delivered'.logs[j] = NonEmptyLines(stdout)[i]]_vars

\* C7 as stated: when the JavaScript executor's timer wins the race, the
\* result carries the timeout message and its logs are exactly the lines the
\* script emitted through the logging facade before the timeout, in order.
C7_Original ==
  [][lang = "javascript" /\ promise = "pending" /\ settledBy' = "timer" =>
       /\ delivered'.logs = Emitted
       /\ delivered'.error = TimeoutMessage("javascript")]_vars

\* C7 amended: when the timer wins the race, the result carries the timeout
\* message and its logs are exactly the lines pushed before the timeout, in
\* order: those emitted through the logging facade and the non-empty outputs
\* of exec calls; lines pushed afterwards do not reach the result.
C7_TimeoutKeepsLogs ==
  /\ [][lang = "javascript" /\ promise = "pending" /\ settledBy' = "timer" =>
          /\ delivered'.logs = Pushed
          /\ delivered'.error = TimeoutMessage("javascript")
          /\ delivered'.result = "undefined"]_vars
  /\ [][lang = "javascript" /\ settledBy = "timer" => delivered' = delivered]_vars

C7_Witness ==
  /\ lang = "javascript"
  /\ settledBy = "timer"
  /\ delivered.logs = <<(<<"o">>)>>
  /\ Pushed = <<(<<"o">>), ConsoleLine("log", "x")>>

\* C8 as stated: a throw during evaluation (syntax error included) gives a
\* result whose error is the thrown error's message text, whose result is
\* undefined and whose logs hold the lines logged before the throw.
C8_Original ==
  lang = "javascript" /\ settledBy = "throw" /\ promise = "resolved" =>
    /\ delivered.error = <<thrown.message>>
    /\ delivered.result = "undefined"
    /\ delivered.logs = Pushed

\* C9 as stated: for a string value containing a double quote the assignment
\* is a well-formed literal that decodes to the value; a number is emitted as
\* a bare numeric literal.
C9_Original ==
  injectPc = "parsed" =>
    IF value.type = "string"
    THEN (\E i \in 1..Len(value.text) : value.text[i] = QUOTE) =>
           parsed = PyString(value.text)
    ELSE parsed = PyNumber(value.num)

\* C10 as stated: on close the shell run is failed iff exit # 0 or stderr is
\* non-empty; in a failed run error is the exit-code description exactly when
\* stderr was empty, and unset when stderr was non-empty.
C10_Original ==
  lang \in {"shell", "command"} /\ settledBy = "close"
    /\ (exitSeen # "0" \/ stderr # <<>>) =>
      /\ (delivered.error = ExitDescription(lang, exitSeen) <=> stderr = <<>>)
      /\ stderr # <<>> => ~ErrorSet

\* C10 amended: on close the shell run takes the failure branch iff exit # 0
\* or stderr is non-empty (the prefixed stderr lines are then in logs); error
\* is the exit-code description exactly when the exit code is non-zero, with
\* or without stderr content, and is unset only when the exit code is 0.
C10_ShellFailurePolicy ==
  lang \in {"shell", "command"} /\ settledBy = "close" =>
    /\ delivered.logs =
         PushStdout(<<>>, stdout)
         \o (IF exitSeen # "0" \/ stderr # <<>>
             THEN PrefixEach("[ERROR] ", NonEmptyLines(stderr)) ELSE <<>>)
    /\ (delivered.error = ExitDescription(lang, exitSeen) <=> exitSeen # "0")
    /\ (exitSeen = "0" <=> ~ErrorSet)

C10_Witness ==
  /\ lang = "shell"
  /\ settledBy = "close"
  /\ exitSeen = "1"
  /\ stderr # <<>>
  /\ delivered.error = ExitDescription("shell", "1")

\* the entries of a log list that carry the "[ERROR] " prefix
ErrorEntries(lg) == SelectSeq(lg, LAMBDA l : l # <<>> /\ l[1] = "[ERROR] ")

\* C11: a shell run resolved by the close of a command that exited with a
\* non-zero code after writing to standard error has error defined, and its
\* "[ERROR] "-prefixed log entries are exactly the non-empty standard-error
\* lines, one entry per line, in order.
C11_ShellStderrLines ==
  lang = "shell" /\ settledBy = "close" /\ exitSeen # "0" /\ stderr # <<>> =>
    /\ ErrorSet
    /\ Len(ErrorEntries(delivered.logs)) = Len(NonEmptyLines(stderr))
    /\ \A i \in 1..Len(NonEmptyLines(stderr)) :
         ErrorEntries(delivered.logs)[i] = <<"[ERROR] ">> \o NonEmptyLines(stderr)[i]

C11_Witness ==
  /\ lang = "shell"
  /\ settledBy = "close"
  /\ exitSeen = "1"
  /\ stderr = <<"e", NL, "e">>
  /\ delivered.logs = <<(<<"[ERROR] ", "e">>), (<<"[ERROR] ", "e">>)>>
  /\ ErrorSet

\* C12: a Python run resolved by the close event is failed iff the exit code
\* is non-zero or standard error has content; a failed run's error is the
\* standard-error text verbatim, or "Process exited with code N" when standard
\* error is empty; otherwise error is unset; no standard-error text is in logs.
C12_PythonFailurePolicy ==
  lang = "python" /\ settledBy = "close" =>
    /\ (ErrorSet <=> (exitSeen # "0" \/ stderr # <<>>))
    /\ stderr # <<>> => delivered.error = stderr
    /\ stderr = <<>> /\ exitSeen # "0" =>
         delivered.error = <<"Process exited with code ", exitSeen>>
    /\ \A j \in 1..Len(delivered.logs) :
         \A k \in 1..Len(delivered.logs[j]) : delivered.logs[j][k] \in OutChars \ {NL}

C12_Witness ==
  /\ lang = "python"
  /\ settledBy = "close"
  /\ exitSeen = "1"
  /\ stdout = <<"a", NL>>
  /\ stderr = <<"e", NL>>
  /\ delivered = ScriptResult(<<(<<"a">>)>>, "undefined", <<"e", NL>>)

RECURSIVE InWriteOrder(_, _, _)
\* the lines of two streams arranged in the order in which they were begun
InWriteOrder(starts, outs, errs) ==
  IF starts = <<>> THEN <<>>
  ELSE IF Head(starts) = "out"
  THEN <<Head(outs)>> \o InWriteOrder(Tail(starts), Tail(outs), errs)
  ELSE <<Head(errs)>> \o InWriteOrder(Tail(starts), outs, Tail(errs))

\* C13 as stated: the log entries of a result are in the order in which the
\* run emitted the output: for JavaScript the order of the pushes, for Python
\* the order of the stdout lines, and for a shell run the order in which the
\* stdout and stderr lines were written.
C13_Original ==
  promise = "resolved" =>
    /\ lang = "javascript" => delivered.logs = SubSeq(Pushed, 1, Len(delivered.logs))
    /\ lang = "python" /\ settledBy = "close" => delivered.logs = NonEmptyLines(stdout)
    /\ lang \in {"shell", "command"} /\ settledBy = "close" =>
         delivered.logs =
           InWriteOrder(lineStarts, NonEmptyLines(stdout),
                        PrefixEach("[ERROR] ", NonEmptyLines(stderr)))

\* C14 as stated: run-command returns what executeShell returns with an empty
\* parameter map for the same command and the same child behaviour (output,
\* exit code, spawn error, no exit within 30 s), error text included.
C14_Original ==
  lang = "command" /\ promise = "resolved" =>
    /\ deadline = ShellTimeoutMs
    /\ settledBy = "close" => delivered = ShellOnClose(<<>>, stdout, stderr, exitSeen)
    /\ settledBy = "timer" => delivered = OnTimeout("shell", <<>>)
    /\ settledBy = "error" => \E msg \in SystemErrors : delivered = OnError("shell", <<>>, msg)

\* C14 amended: run-command has the timeout of executeShell and returns the
\* same logs and result; its error is the same on close, but on a spawn error
\* it is "Failed to execute command: <system error>" and on timeout it is
\* "Command execution timed out (30s)".
C14_CommandLikeShell ==
  lang = "command" /\ promise = "resolved" =>
    /\ deadline = ShellTimeoutMs
    /\ settledBy = "close" => delivered = ShellOnClose(<<>>, stdout, stderr, exitSeen)
    /\ settledBy = "timer" =>
         delivered = [OnTimeout("shell", <<>>)
                        EXCEPT !.error = <<"Command execution timed out (30s)">>]
    /\ settledBy = "error" =>
         \E msg \in SystemErrors :
           delivered = [OnError("shell", <<>>, msg)
                          EXCEPT !.error = <<"Failed to execute command: ", msg>>]

C14_Witness ==
  /\ lang = "command"
  /\ settledBy = "timer"
  /\ stderr # <<>>
  /\ delivered = ScriptResult(<<>>, "undefined", <<"Command execution timed out (30s)">>)

\* C15: execute-script serves the tag "python" with executePython, the tag
\* "shell" with executeShell and every other tag, a missing one included,
\* with executeJavaScript; such a run has an error only when the script threw
\* or timed out.
C15_RoutesByTag ==
  request # "none" =>
    /\ request = "python" => lang = "python"
    /\ request = "shell" => lang = "shell"
    /\ request \notin {"python", "shell"} =>
         /\ lang = "javascript"
         /\ promise = "resolved" /\ ErrorSet => settledBy \in {"throw", "timer"}
         /\ settledBy = "return" => promise = "resolved" /\ ~ErrorSet

C15_Witness ==
  /\ request = "missing"
  /\ lang = "javascript"
  /\ settledBy = "return"
  /\ delivered = ScriptResult(<<ConsoleLine("log", "x")>>, "v", Undefined)

\* positions at which a non-empty line of the text s begins
LineBegins(s) == {i \in 1..Len(s) : s[i] # NL /\ (i = 1 \/ s[i - 1] = NL)}

\* position of the last character of the line beginning at i
LineEnd(s, i) == Min({j \in i..Len(s) : j = Len(s) \/ s[j + 1] = NL})

RECURSIVE LinesFrom(_, _)
LinesFrom(s, B) ==
  IF B = {} THEN <<>>
  ELSE <<SubSeq(s, Min(B), LineEnd(s, Min(B)))>> \o LinesFrom(s, B \ {Min(B)})

\* the maximal newline-free pieces of a text, in order
TextLines(s) == LinesFrom(s, LineBegins(s))

C16_LaunchFailure ==
  IsSubprocess(lang) /\ errorSeen =>
    /\ promise = "resolved"
    /\ settledBy = "error"
    /\ Len(delivered.error) = 2
    /\ delivered.error[1] \in {"Failed to execute Python: ", "Failed to execute shell: ",
                               "Failed to execute command: "}
    /\ delivered.error[2] \in SystemErrors
    /\ delivered.error # TimeoutMessage(lang)
    /\ \A code \in ExitCodes \cup {SpawnFailureCode} :
         delivered.error # ExitDescription(lang, code)

C16_Witness ==
  /\ lang = "python"
  /\ errorSeen
  /\ child = "closed"
  /\ exitSeen = SpawnFailureCode
  /\ delivered.error = <<"Failed to execute Python: ", "spawn ENOENT">>

\* C17 as stated: runs proceed in parallel with independent timeouts: a
\* subprocess run that its own timer resolves is resolved at the instant of
\* its deadline, whatever another run in progress is doing.
C17_Original ==
  [][IsSubprocess(lang) /\ promise = "pending" /\ settledBy' = "timer" =>
       resolvedAt' = deadline]_vars

\* C18 as stated: whatever the interleaving of two runs, the result of a run
\* holds only log lines and an error that this run produced: here, its own
\* text, the JSON text of its own object, or the description of its exit code.
C18_Original ==
  \A r \in Runs :
    run[r].state = "done" =>
      /\ \A j \in 1..Len(run[r].delivered.logs) :
           \A k \in 1..Len(run[r].delivered.logs[j]) :
             run[r].delivered.logs[j][k] \in {OwnText(r), JsObject.text}
      /\ run[r].delivered.error \in
           {Undefined, <<OwnText(r)>>} \cup
           {ExitDescription(run[r].lang, code) : code \in PairExitCodes}

\* C20 as stated: every call of console.log / error / warn / info appends
\* exactly one entry, in call order: the channel's prefix ("", "[ERROR] ",
\* "[WARN] ", "[INFO] ") and the arguments joined by a space, an object as
\* its JSON text and a string as itself; console.log("x") alone gives ["x"].
C20_Original ==
  /\ Len(entries) = Len(calls)
  /\ \A i \in 1..Len(calls) :
       /\ i <= Len(entries)
       /\ entries[i] = ChannelPrefix(calls[i][1]) \o JoinArgs(0, calls[i][2])
  /\ calls = <<(<<"log", <<JsString("x")>>>>)>> => entries = <<(<<"x">>)>>


\* the child was spawned with the env object built from the current request
EnvBuilt == envPc \in {"spawned", "closed"}

\* every parameter is in env as String(value); every other inherited
\* variable is in env unchanged; env holds nothing else
EnvOnTopOfHost ==
  /\ DOMAIN env = DOMAIN hostEnv \cup DOMAIN inputs
  /\ \A k \in DOMAIN inputs : env[k] = StringForm(inputs[k])
  /\ \A k \in DOMAIN hostEnv \ DOMAIN inputs : env[k] = hostEnv[k]

\* the request gave parameter name = "x y" and the run of `echo $name` closed
EchoedNameXY ==
  /\ envPc = "closed"
  /\ "name" \in DOMAIN inputs
  /\ inputs["name"] = StringValue(<<"x", " ", "y">>)

(* C21 as stated: the child's environment is the host's with every         *)
(* parameter laid over it as a string, and with name = "x y" the code      *)
(* `echo $name` logs "x y" on whatever platform the host runs.             *)
C21_Original ==
  /\ EnvBuilt => EnvOnTopOfHost
  /\ EchoedNameXY => shellLogs = << <<"x", " ", "y">> >>

(* C21 amended: the child's environment is the host's with every parameter *)
(* laid over it as a string; with name = "x y" the code `echo $name` logs  *)
(* "x y" where the shell is /bin/bash (any platform but win32).            *)
C21_EnvOnTopOfHost ==
  /\ EnvBuilt => EnvOnTopOfHost
  /\ (EchoedNameXY /\ shellPlatform # "win32") => shellLogs = << <<"x", " ", "y">> >>

\* C21 witness: a parameter named like an inherited variable overrode it,
\* and bash echoed "x y"
C21_Witness ==
  /\ EchoedNameXY
  /\ shellPlatform = "posix"
  /\ "name" \in DOMAIN hostEnv
  /\ env["name"] # hostEnv["name"]
  /\ env["PATH"] = hostEnv["PATH"]
  /\ shellLogs = << <<"x", " ", "y">> >>

\* C21 counterexample: on win32 cmd.exe echoed the text $name
C21_Counterexample ==
  /\ EchoedNameXY
  /\ shellPlatform = "win32"
  /\ shellLogs # << <<"x", " ", "y">> >>


\* the helper has handed its callback to the host's timer
DelayRegistered == clampPc \in {"registered", "fired"}

(* C22 as stated: whatever delay the script asks for, sleep waits at most  *)
(* 30000 ms, setTimeout registers with the smaller of the delay and 5000,  *)
(* and setInterval registers with the larger of the delay and 100, which   *)
(* is a delay of at least 100 ms.                                          *)
C22_Original ==
  DelayRegistered =>
    /\ helper = "sleep" => wait <= SleepMaxMs
    /\ helper = "setTimeout" =>
         /\ wait <= TimeoutMaxMs
         /\ ~requested.nan =>
              registered = Num(IF requested.n < TimeoutMaxMs THEN requested.n ELSE TimeoutMaxMs)
    /\ helper = "setInterval" =>
         /\ ~registered.nan
         /\ registered.n >= IntervalMinMs
         /\ ~requested.nan =>
              registered = Num(IF requested.n > IntervalMinMs THEN requested.n ELSE IntervalMinMs)


(* C23: a run that has returned scheduled the hiding of the window exactly *)
(* when its result has no log entry and an error field that is unset or   *)
(* empty (logs.length === 0 && !error); a rejected call, whose result the *)
(* catch branch builds with an error message, never schedules it.         *)
C23_AutoHideIffSilent ==
  \A r \in RunIds :
    runs[r] = "done" =>
      (r \in scheduledHide <=>
         (outcome[r].logs = 0 /\ outcome[r].error \in {"undefined", "empty"}))

\* C23 witness: one run returned silently and scheduled the hide, another
\* returned with an error and no logs and did not
C23_Witness ==
  \E r, q \in RunIds :
    /\ runs[r] = "done" /\ r \in scheduledHide /\ outcome[r].logs = 0
    /\ runs[q] = "done" /\ q \notin scheduledHide
    /\ outcome[q].logs = 0 /\ outcome[q].error = "text"

(* C26 as stated: whenever the result view shows a result, it is the       *)
(* result of the run started last.                                         *)
C26_Original ==
  (viewMode = "result" /\ result # NullResult) => result.run = latest

\* the step is the firing of run r's 500 ms timer and it hides the window
TimerHides(r) ==
  /\ r \in hideTimers
  /\ r \notin hideTimers'
  /\ isVisible
  /\ ~isVisible'

(* C27 as stated: the hide scheduled by a silent run takes effect only     *)
(* while the result view displays that run's result.                       *)
C27_Original ==
  [][\A r \in RunIds :
       TimerHides(r) => (viewMode = "result" /\ result.run = r)]_vars


\* the step belongs to a subprocess run whose promise was settled before it
AfterResolution ==
  /\ IsSubprocess(lang)
  /\ promise # "pending"
  /\ promise' = promise
  /\ lang' = lang

(* C24 as stated: a close, error or timer event arriving after the run was *)
(* resolved changes neither the result delivered nor the logs array it     *)
(* holds, and issues no kill.                                              *)
C24_Original ==
  [][AfterResolution => (delivered' = delivered /\ logs' = logs /\ kills' = kills)]_vars


\* the folders of fs that are f or below f
FolderAndBelow(fs, f) == FolderIdsToDelete(fs, {f})

\* the scripts of the list ss that the map m locates in a folder of set
ScriptsIn(ss, m, set) == {x \in ItemsOf(ss) : FolderOfScript(m, x) \in set}

(* C25 as stated: a step that removes a folder leaves neither a folder     *)
(* below it nor a script that was located in it or below it.               *)
C25_Original ==
  [][\A f \in FolderIdsOf(folders) :
       f \notin FolderIdsOf(folders') =>
         /\ FolderAndBelow(folders, f) \cap FolderIdsOf(folders') = {}
         /\ ScriptsIn(scripts, scriptFolderMap, FolderAndBelow(folders, f))
              \cap ItemsOf(scripts') = {}]_vars

(* C29 as stated: every key of scriptFolderMap is the id of a script in    *)
(* the state and every value other than null is the id of a folder in the  *)
(* state.                                                                  *)
C29_Original ==
  /\ DOMAIN scriptFolderMap \subseteq ItemsOf(scripts)
  /\ \A k \in DOMAIN scriptFolderMap :
       scriptFolderMap[k] # NullId => scriptFolderMap[k] \in FolderIdsOf(folders)

\* the last operation was one of the three that only reorder
Permuting ==
  lastOp' \in {"reorderScripts", "reorderFolders", "moveScriptToFolderAtPosition"}

\* after holds the items of before, each as often as before
SameItems(before, after) ==
  \A x \in ItemsOf(before) \cup ItemsOf(after) : CountOf(after, x) = CountOf(before, x)

\* the scriptFolderMap entries that the step changes, adds or removes
ChangedEntries ==
  {k \in DOMAIN scriptFolderMap \cup DOMAIN scriptFolderMap' :
     \/ k \notin DOMAIN scriptFolderMap
     \/ k \notin DOMAIN scriptFolderMap'
     \/ scriptFolderMap'[k] # scriptFolderMap[k]}

(* C30 as stated: reorderScripts, reorderFolders and                       *)
(* moveScriptToFolderAtPosition leave the scripts list and the folders     *)
(* list with the same items, each as often as before, and change at most   *)
(* one scriptFolderMap entry (none for the two reorder operations).        *)
C30_Original ==
  [][Permuting =>
       /\ SameItems(scripts, scripts')
       /\ SameItems(folders, folders')
       /\ Cardinality(ChangedEntries)
            <= (IF lastOp' = "moveScriptToFolderAtPosition" THEN 1 ELSE 0)]_vars


\* registerGlobalShortcut has returned since the application started
ShortcutReturned == lastReturn # "none"

(* C28 as stated: after every return of registerGlobalShortcut,            *)
(* currentShortcut names an accelerator registered at that moment (so a    *)
(* toggle shortcut is registered), also after a failed registration, and   *)
(* the settings file was written only if the call succeeded.               *)
C28_Original ==
  ShortcutReturned =>
    /\ currentShortcut \in registeredKeys
    /\ lastReturn = "false" => savedShortcut = savedBefore

====
